---- MODULE Spec2Model ----
(***************************************************************************)
(* The real-time STT session of src/main.py (websocket_realtime_stt) and   *)
(* src/stt/sttStreaming.py (ClovaSpeechRecognizer): the WebSocket handler  *)
(* loop, the recognizer object it drives, the recognition worker threads   *)
(* (request generator and response loop of each) and the client that       *)
(* observes the events sent back.                                          *)
(* ClassifierSpec is _is_sentence_end called on its own, on texts with and *)
(* without padding around the length thresholds; DiarizationSpec is        *)
(* process_obs_json of src/stt/sttSpeaker.py called on its own; FairSpec   *)
(* is the session under the scheduling of the handler and the threads.     *)
(*                                                                         *)
(* A byte string is a sequence of runs <<lo, hi>>: the bytes at offsets    *)
(* lo .. hi-1 of the stream of all audio bytes the client has sent, so     *)
(* every byte keeps its identity.  Adjacent runs that continue each other  *)
(* are merged, which makes equal byte strings equal values.                *)
(***************************************************************************)
EXTENDS Integers, Sequences, FiniteSets, TLC

\* ------------------------------------------------------------------ bounds
MaxMsgs == 5      \* messages the client sends in a session
MaxStarts == 2    \* start messages accepted (worker threads spawned)
MaxMsgsRestarted == 3   \* messages the client sends in a session it starts twice
MaxResp == 1      \* responses the engine sends in one session
MaxChunks == 2    \* audio chunks the client sends in one session

\* --------------------------------------------------------------- constants
FRAME_BYTES == 320
FRAME == 320

\* ------------------------------------------------------------ byte strings
RECURSIVE BLen(_)
BLen(b) == IF b = <<>> THEN 0 ELSE (b[1][2] - b[1][1]) + BLen(Tail(b))

\* bytearray.extend / b"".join of two byte strings
Extend(a, b) ==
    IF a = <<>> THEN b
    ELSE IF b = <<>> THEN a
    ELSE IF a[Len(a)][2] = b[1][1]
         THEN SubSeq(a, 1, Len(a) - 1) \o <<<<a[Len(a)][1], b[1][2]>>>> \o Tail(b)
         ELSE a \o b

\* buf[:n]
RECURSIVE Prefix(_, _)
Prefix(b, n) ==
    IF n <= 0 \/ b = <<>> THEN <<>>
    ELSE LET l == b[1][2] - b[1][1]
         IN IF l <= n THEN Extend(<<b[1]>>, Prefix(Tail(b), n - l))
            ELSE <<<<b[1][1], b[1][1] + n>>>>

\* del buf[:n]
RECURSIVE DelPrefix(_, _)
DelPrefix(b, n) ==
    IF n <= 0 \/ b = <<>> THEN b
    ELSE LET l == b[1][2] - b[1][1]
         IN IF l <= n THEN DelPrefix(Tail(b), n - l)
            ELSE <<<<b[1][1] + n, b[1][2]>>>> \o Tail(b)

\* b"".join(frames)
RECURSIVE Join(_)
Join(frames) == IF frames = <<>> THEN <<>> ELSE Extend(frames[1], Join(Tail(frames)))

\* ------------------------------------------------- sentence classification
\* A text is a sequence of characters, each a string: an ASCII character is
\* itself, any other is named by its code point ("U+3002" is the ideographic
\* full stop, "U+FF1F" the full-width question mark, "U+AC00" a Hangul syllable).
WhiteSpace == {" ", "\t", "\n", "\r", "U+3000"}

\* the endswith tuple without its question mark
Terminal_NoQuestionMark == {".", "!", "U+3002"}

Terminal == {".", "?", "!", "U+3002", "!", "?"}

RECURSIVE LStrip(_)
LStrip(t) == IF t # <<>> /\ t[1] \in WhiteSpace THEN LStrip(Tail(t)) ELSE t

RECURSIVE RStrip(_)
RStrip(t) ==
    IF t # <<>> /\ t[Len(t)] \in WhiteSpace THEN RStrip(SubSeq(t, 1, Len(t) - 1)) ELSE t

Strip(t) == RStrip(LStrip(t))

MinLen == 5

\* the duration rule's threshold one too low
DurationLen_OneLess == 10 - 1

DurationLen == 10
GapLen == 20

is_sentence_end(epd_type, text, period_positions) ==
    LET t == Strip(text)
    IN IF Len(t) < MinLen THEN FALSE
       ELSE IF epd_type \in {"periodEpd", "period"} THEN TRUE
       ELSE IF period_positions # <<>> THEN TRUE
       ELSE IF t[Len(t)] \in Terminal THEN TRUE
       ELSE IF Len(t) >= DurationLen /\ epd_type \in {"duration", "syllable"} THEN TRUE
       ELSE IF Len(t) >= GapLen /\ epd_type \in {"gap", "wordEpd"} THEN TRUE
       ELSE FALSE

\* ------------------------------------------------------------------- state
VARIABLES
    \* websocket_realtime_stt's locals
    hpc,                \* where the handler is: recv, stop_upload, poll, fin, fin_upload, closed
    msg,                \* the message the current loop iteration received ("none" between iterations)
    is_connected,
    is_stopped,
    ws_pcm_buffer,
    \* ClovaSpeechRecognizer's fields
    is_recording,
    is_processing,
    is_paused,
    raw_buffer,
    recorded_frames,
    audio_queue,
    result_queue,
    sentences,
    full_text,
    uploaded_file_url,
    \* the worker threads, 1 .. nworkers
    nworkers,
    gen,                \* gen[w]: the request generator's position and seq
    rsp,                \* rsp[w]: the response loop's position
    sent,               \* sent[w]: the requests worker w has sent to the engine
    \* the client's view and the history the properties speak of
    client,             \* the events sent to the client, in order
    rx,                 \* the audio chunks received: <<lo, hi, state at receipt>>
    enqueued,           \* every frame ever put on audio_queue, in order
    uploadCalls,        \* upload attempts: runs of _upload_audio_to_storage past its empty-archive return
    uploads,            \* what each attempt was given and how it ended
    stops,              \* stop messages processed
    nmsgs,              \* messages received
    nresp,              \* responses received from the engine
    received,           \* the transcription responses received, in order: <<worker, response>>
    errSentences,       \* [set, val]: the sentence list at the first RPC failure
    queued,             \* every item a worker has put on result_queue, in order,
                        \* with the worker as its third component
    \* one call of a function on its own
    call,               \* the arguments
    ret                 \* [done, val]: whether it has returned, and what

handlerVars == <<hpc, msg, is_connected, is_stopped, ws_pcm_buffer>>
flagVars == <<is_recording, is_processing, is_paused>>
audioVars == <<raw_buffer, recorded_frames, audio_queue, enqueued>>
textVars == <<sentences, full_text>>
workerVars == <<nworkers, gen, rsp, sent>>
histVars == <<rx, uploadCalls, uploads, stops, nmsgs, nresp, received, errSentences,
              queued>>
fnVars == <<call, ret>>
vars == <<handlerVars, flagVars, audioVars, textVars, workerVars, histVars,
          result_queue, uploaded_file_url, client, fnVars>>

Workers == 1 .. MaxStarts
None == "None"
ChunkSizes == {310, 320, 330}
Transcriptions ==
    { [text |-> <<>>, epdType |-> "gap", periodPositions |-> <<>>],
      [text |-> <<"o", "k">>, epdType |-> "gap", periodPositions |-> <<>>],
      [text |-> <<"h", "e", "l", "l", "o", "?">>, epdType |-> "gap", periodPositions |-> <<>>] }

\* The session state the flags encode.
State ==
    IF is_recording THEN (IF is_paused THEN "PAUSED" ELSE "RECORDING")
    ELSE IF is_stopped THEN "STOPPED"
    ELSE "INIT"

\* no function call of its own is under way
NoCall == [epdType |-> "", text |-> <<>>, periodPositions |-> <<>>]
NotReturned == [done |-> FALSE, val |-> FALSE]

\* the session after the handler's and the recognizer's construction
SessionInit ==
    /\ hpc = "recv"
    /\ msg = "none"
    /\ is_connected = TRUE
    /\ is_stopped = FALSE
    /\ ws_pcm_buffer = <<>>
    /\ is_recording = FALSE
    /\ is_processing = FALSE
    /\ is_paused = FALSE
    /\ raw_buffer = <<>>
    /\ recorded_frames = <<>>
    /\ audio_queue = <<>>
    /\ result_queue = <<>>
    /\ sentences = <<>>
    /\ full_text = <<>>
    /\ uploaded_file_url = None
    /\ nworkers = 0
    /\ gen = [w \in Workers |-> [pc |-> "none", seq |-> 0]]
    /\ rsp = [w \in Workers |-> "none"]
    /\ sent = [w \in Workers |-> <<>>]
    /\ client = <<>>
    /\ rx = <<>>
    /\ enqueued = <<>>
    /\ uploadCalls = 0
    /\ uploads = <<>>
    /\ stops = 0
    /\ nmsgs = 0
    /\ nresp = 0
    /\ received = <<>>
    /\ errSentences = [set |-> FALSE, val |-> <<>>]
    /\ queued = <<>>

Init ==
    /\ SessionInit
    /\ call = NoCall
    /\ ret = NotReturned

\* ------------------------------------------------ the recognizer's methods
\* add_audio_data's guard
Accepting == ~is_paused /\ is_recording

\* add_audio_data's slicing loop over a = [raw_buffer, audio_queue,
\* recorded_frames, enqueued]
RECURSIVE SliceLoop(_)
SliceLoop(a) ==
    IF BLen(a.raw_buffer) >= FRAME_BYTES
    THEN LET frame == Prefix(a.raw_buffer, FRAME_BYTES)
         IN SliceLoop([raw_buffer |-> DelPrefix(a.raw_buffer, FRAME_BYTES),
                       audio_queue |-> Append(a.audio_queue, frame),
                       recorded_frames |-> Append(a.recorded_frames, frame),
                       enqueued |-> Append(a.enqueued, frame)])
    ELSE a

add_audio_data(a, pcm_data) ==
    IF Accepting
    THEN SliceLoop([a EXCEPT !.raw_buffer = Extend(@, pcm_data)])
    ELSE a

\* the handler's slicing loop forgetting what is left of the buffer
RECURSIVE FeedFrames_CarryDropped(_, _)
FeedFrames_CarryDropped(buf, a) ==
    IF BLen(buf) >= FRAME
    THEN FeedFrames_CarryDropped(DelPrefix(buf, FRAME),
                                 add_audio_data(a, Prefix(buf, FRAME)))
    ELSE <<<<>>, a>>

\* The handler's slicing loop: every complete FRAME of the handler's buffer
\* is passed to add_audio_data.  Gives <<the buffer left, a>>.
RECURSIVE FeedFrames(_, _)
FeedFrames(buf, a) ==
    IF BLen(buf) >= FRAME
    THEN FeedFrames(DelPrefix(buf, FRAME), add_audio_data(a, Prefix(buf, FRAME)))
    ELSE <<buf, a>>

\* pause_recording without its is_recording test
CanPause_NotRecordingToo == ~is_paused

\* pause_recording's and resume_recording's guards
CanPause == is_recording /\ ~is_paused
CanResume == is_recording /\ is_paused

FileUrl == "https://bucket.endpoint/upload/session_audio.wav"

\* how an attempt ends: the container is built and upload_audio_buffer succeeds;
\* it is built and upload_audio_buffer fails (no client, ClientError, any
\* exception); or building it raises, and upload_audio_buffer is not called
UploadOutcomes == {"uploaded", "upload_failed", "build_failed"}

\* _upload_audio_to_storage storing the URL whatever the outcome
UploadAudioToStorage_UrlOnFailure(outcome) ==
    IF recorded_frames = <<>>
    THEN /\ uploaded_file_url' = None
         /\ UNCHANGED <<result_queue, uploadCalls, uploads>>
    ELSE /\ uploadCalls' = uploadCalls + 1
         /\ uploads' = Append(uploads, [audio |-> Join(recorded_frames),
                                        outcome |-> outcome])
         /\ uploaded_file_url' = FileUrl
         /\ IF outcome = "uploaded"
            THEN result_queue' = Append(result_queue, <<"audio_uploaded", FileUrl>>)
            ELSE UNCHANGED result_queue

\* _upload_audio_to_storage without its empty-archive return
UploadAudioToStorage_NoEmptyCheck(outcome) ==
    /\ uploadCalls' = uploadCalls + 1
    /\ uploads' = Append(uploads, [audio |-> Join(recorded_frames), outcome |-> outcome])
    /\ IF outcome = "uploaded"
       THEN /\ uploaded_file_url' = FileUrl
            /\ result_queue' = Append(result_queue, <<"audio_uploaded", FileUrl>>)
       ELSE /\ uploaded_file_url' = None
            /\ UNCHANGED result_queue

\* _upload_audio_to_storage
UploadAudioToStorage(outcome) ==
    IF recorded_frames = <<>>
    THEN /\ uploaded_file_url' = None
         /\ UNCHANGED <<result_queue, uploadCalls, uploads>>
    ELSE /\ uploadCalls' = uploadCalls + 1
         /\ uploads' = Append(uploads, [audio |-> Join(recorded_frames),
                                        outcome |-> outcome])
         /\ IF outcome = "uploaded"
            THEN /\ uploaded_file_url' = FileUrl
                 /\ result_queue' = Append(result_queue, <<"audio_uploaded", FileUrl>>)
            ELSE /\ uploaded_file_url' = None
                 /\ UNCHANGED result_queue

\* ------------------------------------------------------ events and requests
StatusEvent(m) == [type |-> "status", message |-> m]
ErrorEvent(m) == [type |-> "error", message |-> m]
DoneEvent ==
    [type |-> "done", fullText |-> full_text, sentences |-> sentences,
     sentenceCount |-> Len(sentences), file_url |-> uploaded_file_url]
ConfigRequest == [type |-> "CONFIG"]
DataRequest(audio_chunk, ep_flag, seq_id) ==
    [type |-> "DATA", chunk |-> audio_chunk, epFlag |-> ep_flag, seqId |-> seq_id]

\* ------------------------------------------------------- the handler's loop
Receive(m) ==
    /\ hpc = "recv"
    /\ nmsgs < (IF nworkers > 1 THEN MaxMsgsRestarted ELSE MaxMsgs)
    /\ nmsgs' = nmsgs + 1
    /\ msg' = m

\* {"action": "start"}
OnStart ==
    /\ Receive("start")
    /\ nworkers < MaxStarts
    /\ nworkers > 0 => nmsgs < MaxMsgsRestarted
    /\ is_recording' = TRUE
    /\ recorded_frames' = <<>>
    /\ is_processing' = TRUE
    /\ nworkers' = nworkers + 1
    /\ gen' = [gen EXCEPT ![nworkers + 1] = [pc |-> "config", seq |-> 0]]
    /\ rsp' = [rsp EXCEPT ![nworkers + 1] = "run"]
    /\ client' = Append(client, StatusEvent("recording"))
    /\ hpc' = "poll"
    /\ UNCHANGED <<is_connected, is_stopped, ws_pcm_buffer, is_paused, raw_buffer,
                   audio_queue, enqueued, textVars, sent, result_queue,
                   uploaded_file_url, rx, uploadCalls, uploads, stops, nresp, received, errSentences, queued>>
    /\ UNCHANGED fnVars

\* {"action": "pause"}
OnPause ==
    /\ Receive("pause")
    /\ IF CanPause
       THEN /\ is_paused' = TRUE
            /\ client' = Append(client, StatusEvent("paused"))
       ELSE UNCHANGED <<is_paused, client>>
    /\ hpc' = "poll"
    /\ UNCHANGED <<is_connected, is_stopped, ws_pcm_buffer, is_recording, is_processing,
                   audioVars, textVars, workerVars, result_queue, uploaded_file_url,
                   rx, uploadCalls, uploads, stops, nresp, received, errSentences, queued>>
    /\ UNCHANGED fnVars

\* {"action": "resume"}
OnResume ==
    /\ Receive("resume")
    /\ IF CanResume
       THEN /\ is_paused' = FALSE
            /\ client' = Append(client, StatusEvent("resumed"))
       ELSE UNCHANGED <<is_paused, client>>
    /\ hpc' = "poll"
    /\ UNCHANGED <<is_connected, is_stopped, ws_pcm_buffer, is_recording, is_processing,
                   audioVars, textVars, workerVars, result_queue, uploaded_file_url,
                   rx, uploadCalls, uploads, stops, nresp, received, errSentences, queued>>
    /\ UNCHANGED fnVars

\* {"action": "stop"}: the first one runs stop_recording, whose flag
\* assignments are this step and whose upload is the next (StopUpload)
OnStop ==
    /\ Receive("stop")
    /\ stops' = stops + 1
    /\ IF ~is_stopped
       THEN /\ is_stopped' = TRUE
            /\ is_recording' = FALSE
            /\ is_processing' = FALSE
            /\ hpc' = "stop_upload"
            /\ UNCHANGED client
       ELSE /\ client' = Append(client, StatusEvent("stopping"))
            /\ hpc' = "poll"
            /\ UNCHANGED <<is_stopped, is_recording, is_processing>>
    /\ UNCHANGED <<is_connected, ws_pcm_buffer, is_paused, audioVars, textVars,
                   workerVars, result_queue, uploaded_file_url, rx, uploadCalls, uploads,
                   nresp, received, errSentences, queued>>
    /\ UNCHANGED fnVars

\* the rest of the first stop: _upload_audio_to_storage, then the status event
StopUpload ==
    /\ hpc = "stop_upload"
    /\ \E outcome \in UploadOutcomes : UploadAudioToStorage(outcome)
    /\ client' = Append(client, StatusEvent("stopping"))
    /\ hpc' = "poll"
    /\ UNCHANGED <<msg, is_connected, is_stopped, ws_pcm_buffer, flagVars, audioVars,
                   textVars, workerVars, rx, stops, nmsgs, nresp, received, errSentences, queued>>
    /\ UNCHANGED fnVars

\* a text message that is not JSON, or has no "action"
OnMalformed ==
    /\ Receive("malformed")
    /\ client' = Append(client, ErrorEvent("text parse error"))
    /\ hpc' = "poll"
    /\ UNCHANGED <<is_connected, is_stopped, ws_pcm_buffer, flagVars, audioVars,
                   textVars, workerVars, result_queue, uploaded_file_url,
                   rx, uploadCalls, uploads, stops, nresp, received, errSentences, queued>>
    /\ UNCHANGED fnVars

\* a binary message of n bytes
OnAudio(n) ==
    /\ Receive("audio")
    /\ Len(rx) < MaxChunks
    /\ LET lo == IF rx = <<>> THEN 0 ELSE rx[Len(rx)][2]
           chunk == <<<<lo, lo + n>>>>
           fed == FeedFrames(Extend(ws_pcm_buffer, chunk),
                             [raw_buffer |-> raw_buffer, audio_queue |-> audio_queue,
                              recorded_frames |-> recorded_frames, enqueued |-> enqueued])
       IN /\ rx' = Append(rx, <<lo, lo + n, State>>)
          /\ ws_pcm_buffer' = fed[1]
          /\ raw_buffer' = fed[2].raw_buffer
          /\ audio_queue' = fed[2].audio_queue
          /\ recorded_frames' = fed[2].recorded_frames
          /\ enqueued' = fed[2].enqueued
    /\ hpc' = "poll"
    /\ UNCHANGED <<is_connected, is_stopped, flagVars, textVars, workerVars,
                   result_queue, uploaded_file_url, client, uploadCalls, uploads, stops,
                   nresp, received, errSentences, queued>>
    /\ UNCHANGED fnVars

\* websocket.disconnect, or receive() raising on a closed connection
OnDisconnect ==
    /\ hpc = "recv"
    /\ is_connected' = FALSE
    /\ hpc' = "fin"
    /\ UNCHANGED <<msg, is_stopped, ws_pcm_buffer, flagVars, audioVars, textVars,
                   workerVars, histVars, result_queue, uploaded_file_url, client>>
    /\ UNCHANGED fnVars

\* the dispatch taking the newest item of the queue instead of the oldest
Poll_NewestFirst ==
    /\ hpc = "poll"
    /\ msg' = "none"
    /\ IF result_queue = <<>>
       THEN /\ hpc' = "recv"
            /\ UNCHANGED <<result_queue, client>>
       ELSE LET msg_type == result_queue[Len(result_queue)][1]
                payload == result_queue[Len(result_queue)][2]
            IN /\ result_queue' = SubSeq(result_queue, 1, Len(result_queue) - 1)
               /\ hpc' = IF msg_type = "done" THEN "fin" ELSE "recv"
               /\ client' =
                    CASE msg_type = "data" -> Append(client, payload)
                      [] msg_type = "audio_uploaded" ->
                            Append(client, [type |-> "audio_uploaded", file_url |-> payload])
                      [] msg_type = "audio_upload_failed" ->
                            Append(client, ErrorEvent("upload failed"))
                      [] msg_type = "done" -> Append(client, DoneEvent)
                      [] msg_type = "error" -> Append(client, ErrorEvent(payload))
                      [] OTHER -> client
    /\ UNCHANGED <<is_connected, is_stopped, ws_pcm_buffer, flagVars, audioVars,
                   textVars, workerVars, histVars, uploaded_file_url>>
    /\ UNCHANGED fnVars

\* result_queue.get_nowait() and the dispatch of what it returned
Poll ==
    /\ hpc = "poll"
    /\ msg' = "none"
    /\ IF result_queue = <<>>
       THEN /\ hpc' = "recv"
            /\ UNCHANGED <<result_queue, client>>
       ELSE LET msg_type == result_queue[1][1]
                payload == result_queue[1][2]
            IN /\ result_queue' = Tail(result_queue)
               /\ hpc' = IF msg_type = "done" THEN "fin" ELSE "recv"
               /\ client' =
                    CASE msg_type = "data" -> Append(client, payload)
                      [] msg_type = "audio_uploaded" ->
                            Append(client, [type |-> "audio_uploaded", file_url |-> payload])
                      [] msg_type = "audio_upload_failed" ->
                            Append(client, ErrorEvent("upload failed"))
                      [] msg_type = "done" -> Append(client, DoneEvent)
                      [] msg_type = "error" -> Append(client, ErrorEvent(payload))
                      [] OTHER -> client
    /\ UNCHANGED <<is_connected, is_stopped, ws_pcm_buffer, flagVars, audioVars,
                   textVars, workerVars, histVars, uploaded_file_url>>
    /\ UNCHANGED fnVars

\* the finally block without its stop_recording
Finally_NoStop ==
    /\ hpc = "fin"
    /\ hpc' = "closed"
    /\ UNCHANGED <<msg, is_connected, is_stopped, ws_pcm_buffer, flagVars, audioVars,
                   textVars, workerVars, histVars, result_queue, uploaded_file_url,
                   client>>
    /\ UNCHANGED fnVars

\* the finally block: stop_recording unless a stop ran it ...
Finally ==
    /\ hpc = "fin"
    /\ IF ~is_stopped
       THEN /\ is_stopped' = TRUE
            /\ is_recording' = FALSE
            /\ is_processing' = FALSE
            /\ hpc' = "fin_upload"
       ELSE /\ hpc' = "closed"
            /\ UNCHANGED <<is_stopped, is_recording, is_processing>>
    /\ UNCHANGED <<msg, is_connected, ws_pcm_buffer, is_paused, audioVars, textVars,
                   workerVars, histVars, result_queue, uploaded_file_url, client>>
    /\ UNCHANGED fnVars

\* ... whose upload is this step
FinallyUpload ==
    /\ hpc = "fin_upload"
    /\ \E outcome \in UploadOutcomes : UploadAudioToStorage(outcome)
    /\ hpc' = "closed"
    /\ UNCHANGED <<msg, is_connected, is_stopped, ws_pcm_buffer, flagVars, audioVars,
                   textVars, workerVars, client, rx, stops, nmsgs, nresp, received, errSentences, queued>>
    /\ UNCHANGED fnVars

\* ------------------------------------------- the worker: generate_requests
\* yield self.create_config_request(language)
GenConfig(w) ==
    /\ gen[w].pc = "config"
    /\ sent' = [sent EXCEPT ![w] = Append(@, ConfigRequest)]
    /\ gen' = [gen EXCEPT ![w].pc = "loop"]
    /\ UNCHANGED <<handlerVars, flagVars, audioVars, textVars, nworkers, rsp, histVars,
                   result_queue, uploaded_file_url, client>>
    /\ UNCHANGED fnVars

\* while self.is_recording: if self.is_paused: sleep, continue.  The two flags
\* are read in one step: only the handler writes them, and any pair of values
\* the two reads can see is also seen by one read placed between the writes.
GenLoop(w) ==
    /\ gen[w].pc = "loop"
    /\ gen' = [gen EXCEPT ![w].pc = IF ~is_recording THEN "terminal"
                                    ELSE IF is_paused THEN "loop" ELSE "get"]
    /\ UNCHANGED <<handlerVars, flagVars, audioVars, textVars, nworkers, rsp, sent,
                   histVars, result_queue, uploaded_file_url, client>>
    /\ UNCHANGED fnVars

\* the generator without its seq += 1
GenGet_SeqKept(w) ==
    /\ gen[w].pc = "get"
    /\ IF audio_queue = <<>>
       THEN /\ gen' = [gen EXCEPT ![w].pc = "loop"]
            /\ UNCHANGED <<audio_queue, sent>>
       ELSE /\ audio_queue' = Tail(audio_queue)
            /\ sent' = [sent EXCEPT
                          ![w] = Append(@, DataRequest(audio_queue[1], FALSE, gen[w].seq))]
            /\ gen' = [gen EXCEPT ![w] = [pc |-> "loop", seq |-> @.seq]]
    /\ UNCHANGED <<handlerVars, flagVars, raw_buffer, recorded_frames, enqueued, textVars,
                   nworkers, rsp, histVars, result_queue, uploaded_file_url, client>>
    /\ UNCHANGED fnVars

\* the generator reading the head of the queue without taking it off
GenGet_HeadKept(w) ==
    /\ gen[w].pc = "get"
    /\ IF audio_queue = <<>>
       THEN /\ gen' = [gen EXCEPT ![w].pc = "loop"]
            /\ UNCHANGED <<audio_queue, sent>>
       ELSE /\ audio_queue' = audio_queue
            /\ sent' = [sent EXCEPT
                          ![w] = Append(@, DataRequest(audio_queue[1], FALSE, gen[w].seq))]
            /\ gen' = [gen EXCEPT ![w] = [pc |-> "loop", seq |-> @.seq + 1]]
    /\ UNCHANGED <<handlerVars, flagVars, raw_buffer, recorded_frames, enqueued, textVars,
                   nworkers, rsp, histVars, result_queue, uploaded_file_url, client>>
    /\ UNCHANGED fnVars

\* chunk = self.audio_queue.get(timeout=0.1); yield the data request
\* (queue.Empty: continue)
GenGet(w) ==
    /\ gen[w].pc = "get"
    /\ IF audio_queue = <<>>
       THEN /\ gen' = [gen EXCEPT ![w].pc = "loop"]
            /\ UNCHANGED <<audio_queue, sent>>
       ELSE /\ audio_queue' = Tail(audio_queue)
            /\ sent' = [sent EXCEPT
                          ![w] = Append(@, DataRequest(audio_queue[1], FALSE, gen[w].seq))]
            /\ gen' = [gen EXCEPT ![w] = [pc |-> "loop", seq |-> @.seq + 1]]
    /\ UNCHANGED <<handlerVars, flagVars, raw_buffer, recorded_frames, enqueued, textVars,
                   nworkers, rsp, histVars, result_queue, uploaded_file_url, client>>
    /\ UNCHANGED fnVars

\* yield self.create_data_request(b"", True, seq)
GenTerminal(w) ==
    /\ gen[w].pc = "terminal"
    /\ sent' = [sent EXCEPT ![w] = Append(@, DataRequest(<<>>, TRUE, gen[w].seq))]
    /\ gen' = [gen EXCEPT ![w].pc = "end"]
    /\ UNCHANGED <<handlerVars, flagVars, audioVars, textVars, nworkers, rsp, histVars,
                   result_queue, uploaded_file_url, client>>
    /\ UNCHANGED fnVars

\* ---------------------------------------- the worker: _process_recognition
\* a config response: the engine's answer to the configuration request
RespConfig(w) ==
    /\ rsp[w] = "run"
    /\ gen[w].pc \notin {"none", "config"}
    /\ nresp < MaxResp
    /\ nresp' = nresp + 1
    /\ result_queue' = Append(result_queue, <<"config", "config">>)
    /\ queued' = Append(queued, <<"config", "config", w>>)
    /\ UNCHANGED <<handlerVars, flagVars, audioVars, textVars, workerVars, rx, uploadCalls,
                   uploads, stops, nmsgs, received, errSentences, uploaded_file_url,
                   client>>
    /\ UNCHANGED fnVars

\* a transcription response put on the queue only when it ends a sentence
RespTranscription_FinalOnly(w, t) ==
    /\ rsp[w] = "run"
    /\ gen[w].pc \notin {"none", "config"}
    /\ nresp < MaxResp
    /\ nresp' = nresp + 1
    /\ received' = Append(received, <<w, t>>)
    /\ IF t.text = <<>>
       THEN UNCHANGED <<sentences, full_text, result_queue, queued>>
       ELSE LET end_flag == is_sentence_end(t.epdType, t.text, t.periodPositions)
                send_data == [type |-> "transcription", text |-> t.text,
                              isSentenceEnd |-> end_flag, epdType |-> t.epdType]
            IN /\ IF end_flag
                  THEN /\ sentences' = Append(sentences, t.text)
                       /\ full_text' = full_text \o t.text \o <<" ">>
                  ELSE UNCHANGED <<sentences, full_text>>
               /\ IF end_flag
                  THEN /\ result_queue' = Append(result_queue, <<"data", send_data>>)
                       /\ queued' = Append(queued, <<"data", send_data, w>>)
                  ELSE UNCHANGED <<result_queue, queued>>
    /\ UNCHANGED <<handlerVars, flagVars, audioVars, workerVars, rx, uploadCalls, uploads,
                   stops, nmsgs, errSentences, uploaded_file_url, client>>
    /\ UNCHANGED fnVars

\* a transcription response; one without text is passed over
RespTranscription(w, t) ==
    /\ rsp[w] = "run"
    /\ gen[w].pc \notin {"none", "config"}
    /\ nresp < MaxResp
    /\ nresp' = nresp + 1
    /\ received' = Append(received, <<w, t>>)
    /\ IF t.text = <<>>
       THEN UNCHANGED <<sentences, full_text, result_queue, queued>>
       ELSE LET end_flag == is_sentence_end(t.epdType, t.text, t.periodPositions)
                send_data == [type |-> "transcription", text |-> t.text,
                              isSentenceEnd |-> end_flag, epdType |-> t.epdType]
            IN /\ IF end_flag
                  THEN /\ sentences' = Append(sentences, t.text)
                       /\ full_text' = full_text \o t.text \o <<" ">>
                  ELSE UNCHANGED <<sentences, full_text>>
               /\ result_queue' = Append(result_queue, <<"data", send_data>>)
               /\ queued' = Append(queued, <<"data", send_data, w>>)
    /\ UNCHANGED <<handlerVars, flagVars, audioVars, workerVars, rx, uploadCalls, uploads,
                   stops, nmsgs, errSentences, uploaded_file_url, client>>
    /\ UNCHANGED fnVars

\* the engine ends the response stream, which it does after the terminal marker
RespEnd(w) ==
    /\ rsp[w] = "run"
    /\ gen[w].pc = "end"
    /\ rsp' = [rsp EXCEPT ![w] = "finally"]
    /\ UNCHANGED <<handlerVars, flagVars, audioVars, textVars, nworkers, gen, sent,
                   histVars, result_queue, uploaded_file_url, client>>
    /\ UNCHANGED fnVars

\* except grpc.RpcError: the call is over, nothing more is read from the generator
RespError(w) ==
    /\ rsp[w] = "run"
    /\ result_queue' = Append(result_queue, <<"error", "rpc error">>)
    /\ queued' = Append(queued, <<"error", "rpc error", w>>)
    /\ rsp' = [rsp EXCEPT ![w] = "finally"]
    /\ gen' = [gen EXCEPT ![w].pc = IF @ = "end" THEN "end" ELSE "cancelled"]
    /\ errSentences' = IF errSentences.set THEN errSentences
                       ELSE [set |-> TRUE, val |-> sentences]
    /\ UNCHANGED <<handlerVars, flagVars, audioVars, textVars, nworkers, sent, rx,
                   uploadCalls, uploads, stops, nmsgs, nresp, received, uploaded_file_url, client>>
    /\ UNCHANGED fnVars

\* any other exception ending the thread without the finally clause's done
RespException_NoDone(w) ==
    /\ rsp[w] = "run"
    /\ rsp' = [rsp EXCEPT ![w] = "end"]
    /\ gen' = [gen EXCEPT ![w].pc = IF @ = "end" THEN "end" ELSE "cancelled"]
    /\ UNCHANGED <<handlerVars, flagVars, audioVars, textVars, nworkers, sent, histVars,
                   result_queue, uploaded_file_url, client>>
    /\ UNCHANGED fnVars

\* any other exception (a response that is not JSON, or a transcription
\* response without its "transcription" member): no except clause takes it,
\* the finally clause runs and the thread ends with the exception
RespException(w) ==
    /\ rsp[w] = "run"
    /\ rsp' = [rsp EXCEPT ![w] = "finally"]
    /\ gen' = [gen EXCEPT ![w].pc = IF @ = "end" THEN "end" ELSE "cancelled"]
    /\ UNCHANGED <<handlerVars, flagVars, audioVars, textVars, nworkers, sent, histVars,
                   result_queue, uploaded_file_url, client>>
    /\ UNCHANGED fnVars

\* finally: sleep, then self.result_queue.put(("done", None))
RespDone(w) ==
    /\ rsp[w] = "finally"
    /\ result_queue' = Append(result_queue, <<"done", None>>)
    /\ queued' = Append(queued, <<"done", None, w>>)
    /\ rsp' = [rsp EXCEPT ![w] = "end"]
    /\ UNCHANGED <<handlerVars, flagVars, audioVars, textVars, nworkers, gen, sent,
                   rx, uploadCalls, uploads, stops, nmsgs, nresp, received, errSentences,
                   uploaded_file_url, client>>
    /\ UNCHANGED fnVars

\* ------------------------------------------------------------ specification
ClientNext ==
    \/ OnStart
    \/ OnPause
    \/ OnResume
    \/ OnStop
    \/ OnMalformed
    \/ \E n \in ChunkSizes : OnAudio(n)
    \/ OnDisconnect

HandlerNext ==
    \/ StopUpload
    \/ Poll
    \/ Finally
    \/ FinallyUpload

WorkerNext ==
    \E w \in Workers :
        \/ GenConfig(w)
        \/ GenLoop(w)
        \/ GenGet(w)
        \/ GenTerminal(w)
        \/ RespConfig(w)
        \/ \E t \in Transcriptions : RespTranscription(w, t)
        \/ RespEnd(w)
        \/ RespError(w)
        \/ RespException(w)
        \/ RespDone(w)

ServerNext == HandlerNext \/ WorkerNext

Next == ClientNext \/ ServerNext

Spec == Init /\ [][Next]_vars

\* The handler's own steps and each thread's steps are taken when they can
\* be; what the client sends and what the engine answers is not promised,
\* except that disconnect() closes self.channel, the channel of the last
\* worker started (connect() replaces the channel of an earlier worker
\* without closing it), which ends that worker's call with an RPC error.
FairSpec ==
    /\ Spec
    /\ WF_vars(HandlerNext)
    /\ \A w \in Workers :
          /\ WF_vars(GenConfig(w) \/ GenLoop(w) \/ GenGet(w) \/ GenTerminal(w))
          /\ WF_vars(RespEnd(w) \/ RespDone(w))
          /\ WF_vars(hpc = "closed" /\ w = nworkers /\ RespError(w))

\* ------------------------------------- _is_sentence_end called on its own
MaxFill == 20     \* filler characters of a text, before its last character

EpdTypes == {"periodEpd", "period", "duration", "syllable", "gap", "wordEpd", ""}
PeriodPositions == {<<>>, <<3>>}
LastChars == {".", "?", "!", "U+3002", "U+FF01", "U+FF1F", "U+AC00"}
Pads == {<<>>, <<" ">>}

\* n times the character c
RECURSIVE Fill(_, _)
Fill(c, n) == IF n <= 0 THEN <<>> ELSE <<c>> \o Fill(c, n - 1)

\* the texts of the spec's table of cases
TableShort == <<"U+C9E7", "U+B2E4">>
TableDuration ==
    <<"U+C774", "U+AC83", "U+C740", "U+C5F4", "U+AE00", "U+C790", "U+C785", "U+B2C8", "U+B2E4">>
TableGap ==
    <<"U+C774", "U+AC83", "U+C740", "U+C5EC", "U+B367", "U+C790", "U+D14D", "U+C2A4", "U+D2B8">>

\* padding, filler characters, a last character, padding; and the table's texts
Texts ==
    { lead \o Fill("U+AC00", n) \o last \o trail :
        lead \in Pads, n \in 0 .. MaxFill,
        last \in {<<>>} \cup { <<c>> : c \in LastChars }, trail \in Pads }
    \cup {TableShort, TableDuration, TableGap}

ClassifierInit ==
    /\ SessionInit
    /\ call \in [epdType : EpdTypes, text : Texts, periodPositions : PeriodPositions]
    /\ ret = NotReturned

Classify ==
    /\ ~ret.done
    /\ ret' = [done |-> TRUE,
               val |-> is_sentence_end(call.epdType, call.text, call.periodPositions)]
    /\ UNCHANGED <<handlerVars, flagVars, audioVars, textVars, workerVars, histVars,
                   result_queue, uploaded_file_url, client, call>>

ClassifierNext == Classify

ClassifierSpec == ClassifierInit /\ [][ClassifierNext]_vars

\* -------------------------------------- process_obs_json called on its own
MaxSegs == 3      \* segments of a diarization result

\* a segment: start and end in ms, and the speaker's label, -1 standing for
\* a segment that names no speaker (the default the code takes)
Segments == [start : {0, 1000}, end : {0, 1004, 3005}, label : {-1, 1, 2}]
SegLists == UNION { [1 .. n -> Segments] : n \in 0 .. MaxSegs }

Max(a, b) == IF a >= b THEN a ELSE b

\* n / d rounded to the nearest integer, ties to even, as round() does
Round(n, d) ==
    LET q == n \div d
        r == n % d
    IN IF 2 * r < d THEN q
       ELSE IF 2 * r > d THEN q + 1
       ELSE IF q % 2 = 0 THEN q ELSE q + 1

\* a / b: [ok, val], not ok being ZeroDivisionError; val in units of 1/scale
Divide(a, b, scale) ==
    IF b = 0 THEN [ok |-> FALSE, val |-> 0] ELSE [ok |-> TRUE, val |-> Round(a * scale, b)]

\* the loop over the segments, from the i-th on; acc is [speaker_stats,
\* total_talk_time].  A segment is kept with its position in the input, which
\* stands for the identity of the object the code appends.
RECURSIVE SegLoop(_, _, _)
SegLoop(segments, i, acc) ==
    IF i > Len(segments) THEN acc
    ELSE LET seg == segments[i]
             dur == Max(0, seg.end - seg.start)
             label == seg.label
             known == IF label \in DOMAIN acc.speaker_stats
                      THEN acc.speaker_stats
                      ELSE acc.speaker_stats @@ (label :> [time |-> 0, sentences |-> <<>>])
             stats == [known EXCEPT ![label] =
                          [time |-> @.time + dur,
                           sentences |-> Append(@.sentences, <<i, seg>>)]]
         IN SegLoop(segments, i + 1,
                    [speaker_stats |-> stats,
                     total_talk_time |-> acc.total_talk_time + dur])

Accumulated(segments) ==
    SegLoop(segments, 1, [speaker_stats |-> [l \in {} |-> 0], total_talk_time |-> 0])

\* the ratio expression without its test of the total
Ratio_Unguarded(time, total_talk_time) == Divide(time * 100, total_talk_time, 100)

\* (info["time"] / total_talk_time * 100) if total_talk_time else 0, rounded
\* to 2 places: [ok, val], val in hundredths of a percent
Ratio(time, total_talk_time) ==
    IF total_talk_time # 0 THEN Divide(time * 100, total_talk_time, 100)
    ELSE [ok |-> TRUE, val |-> 0]

\* process_obs_json: the dict returned, or the exception raised
process_obs_json(result) ==
    LET acc == Accumulated(result.segments)
        stats == acc.speaker_stats
        ratio(l) == Ratio(stats[l].time, acc.total_talk_time)
    IN IF \E l \in DOMAIN stats : ~ratio(l).ok
       THEN [success |-> FALSE, error |-> "ZeroDivisionError"]
       ELSE [success |-> TRUE,
             segments |-> result.segments,
             speakerStats |-> [l \in DOMAIN stats |->
                                 [time |-> stats[l].time,
                                  sentences |-> stats[l].sentences,
                                  ratio |-> ratio(l).val]],
             totalTalkTimeSec |-> Divide(acc.total_talk_time, 1000, 100).val]

DiarizationInit ==
    /\ SessionInit
    /\ call \in [segments : SegLists]
    /\ ret = NotReturned

ProcessObsJson ==
    /\ ~ret.done
    /\ ret' = [done |-> TRUE, val |-> process_obs_json(call)]
    /\ UNCHANGED <<handlerVars, flagVars, audioVars, textVars, workerVars, histVars,
                   result_queue, uploaded_file_url, client, call>>

DiarizationNext == ProcessObsJson

DiarizationSpec == DiarizationInit /\ [][DiarizationNext]_vars

\* ------------------------------------------------------ what the claims use
\* the byte strings (frames) among fs that hold a byte of a chunk received in state st
FramesWithBytesOf(fs, st) ==
    { i \in DOMAIN fs :
        \E k \in DOMAIN fs[i], c \in DOMAIN rx :
            /\ rx[c][3] = st
            /\ fs[i][k][1] < rx[c][2]
            /\ rx[c][1] < fs[i][k][2] }

EventsOfType(ty) == { i \in DOMAIN client : client[i].type = ty }
DoneCount == Cardinality(EventsOfType("done"))
StatusAt(m) == { i \in DOMAIN client : client[i] = StatusEvent(m) }

\* a start was acknowledged before the first stop was
StartedThenStopped ==
    \E j \in StatusAt("stopping") :
        /\ \A k \in StatusAt("stopping") : j <= k
        /\ \E i \in StatusAt("recording") : i < j

\* nothing runs until the client sends something: the handler waits in
\* receive() and no worker has a step left
Quiescent == hpc = "recv" /\ ~ENABLED ServerNext

\* the frame payloads worker w has sent, in order
RECURSIVE ChunksOf(_)
ChunksOf(reqs) ==
    IF reqs = <<>> THEN <<>>
    ELSE IF reqs[1].type = "DATA" /\ ~reqs[1].epFlag
         THEN <<reqs[1].chunk>> \o ChunksOf(Tail(reqs))
         ELSE ChunksOf(Tail(reqs))

\* this step sends a frame message of worker w
SendsFrame(w) ==
    /\ Len(sent'[w]) = Len(sent[w]) + 1
    /\ sent'[w][Len(sent'[w])].type = "DATA"
    /\ ~sent'[w][Len(sent'[w])].epFlag

\* ------------------------------------------------------------------- claims
\* C1: no byte received while the session is PAUSED ever appears in the frame
\* archive or in the frame queue feeding recognition, the bytes a carry buffer
\* holds when the pause ends included.
C1_PauseExclusion ==
    /\ FramesWithBytesOf(recorded_frames, "PAUSED") = {}
    /\ FramesWithBytesOf(enqueued, "PAUSED") = {}

\* no worker has failed: no RPC error, and no generator abandoned
NoWorkerFailure == ~errSentences.set /\ \A w \in Workers : gen[w].pc # "cancelled"

\* C2: when stop is sent twice or more in a started session that has archived
\* a frame, exactly one upload attempt is made and exactly one done event is
\* sent to the client, in total (once nothing is left to run).
C2_StopTwiceOneUploadOneDone ==
    (/\ nworkers = 1
     /\ NoWorkerFailure
     /\ StartedThenStopped
     /\ Cardinality(StatusAt("stopping")) >= 2
     /\ recorded_frames # <<>>
     /\ Quiescent)
    => (uploadCalls = 1 /\ DoneCount = 1)

\* C3: a session that ends (stop or disconnect, in any order of messages)
\* with at least one frame in its archive has made exactly one upload attempt.
C3_ExactlyOneUpload ==
    (hpc = "closed" /\ recorded_frames # <<>>) => uploadCalls = 1

\* C4: once the worker has sent the terminal marker, the frame payloads it sent
\* to the engine, concatenated, are the archived byte sequence.
C4_ArchiveEqualsEngineInput ==
    (nworkers = 1 /\ gen[1].pc = "end")
    => Join(ChunksOf(sent[1])) = Join(recorded_frames)

\* C5: a frame is appended to the archive only while the session is RECORDING,
\* and a worker sends a frame message to the engine only while the session is
\* RECORDING.
C5_OnlyWhileRecording ==
    [][ /\ Len(recorded_frames') > Len(recorded_frames) => State = "RECORDING"
        /\ \A w \in Workers : SendsFrame(w) => State = "RECORDING" ]_vars

\* C6: a start message received outside INIT is a no-op: the flags and the
\* archive stay as they are and no worker thread is spawned.
C6_StartOutsideInitIsNoOp ==
    [][ (hpc = "recv" /\ msg' = "start" /\ State # "INIT")
        => UNCHANGED <<is_recording, is_paused, recorded_frames, nworkers>> ]_vars

\* C7: pause takes effect, acknowledged by a 'paused' status event, exactly
\* when the session is RECORDING, and resume, acknowledged by 'resumed',
\* exactly when it is PAUSED; in every other state they change neither the
\* flags nor what the client is sent.
C7_PauseResumeGuards ==
    [][ /\ (hpc = "recv" /\ msg' = "pause") =>
              IF State = "RECORDING"
              THEN /\ State' = "PAUSED"
                   /\ client' = Append(client, StatusEvent("paused"))
              ELSE UNCHANGED <<is_recording, is_paused, is_stopped, client>>
        /\ (hpc = "recv" /\ msg' = "resume") =>
              IF State = "PAUSED"
              THEN /\ State' = "RECORDING"
                   /\ client' = Append(client, StatusEvent("resumed"))
              ELSE UNCHANGED <<is_recording, is_paused, is_stopped, client>> ]_vars

\* C7's case: a pause and a resume have taken effect, and the pause just
\* handled, in a session that is not RECORDING any more, did nothing
C7_Witness ==
    /\ StatusAt("paused") # {}
    /\ StatusAt("resumed") # {}
    /\ hpc = "poll"
    /\ msg = "pause"
    /\ State = "STOPPED"
    /\ client[Len(client)] # StatusEvent("paused")

\* C8: after the first stop, with the connection open, the client gets the done
\* event without sending anything more: while done is not sent, the handler or
\* a worker always has a step it can take.
C8_DoneWithoutFurtherMessage ==
    (/\ nworkers = 1
     /\ NoWorkerFailure
     /\ StartedThenStopped
     /\ is_connected
     /\ hpc = "recv"
     /\ DoneCount = 0)
    => ENABLED ServerNext

\* C9: when the done event is sent, the archive upload step has run to its end:
\* in a session that archived frames and whose upload succeeded, the file URL
\* the done event carries is the uploaded archive's.
C9_DoneAfterUpload ==
    \A i \in EventsOfType("done") :
        (nworkers = 1 /\ recorded_frames # <<>> /\ uploaded_file_url = FileUrl)
        => client[i].file_url = FileUrl

\* every worker that has put its done had an RPC failure and put error first
OnlyRpcFailures ==
    \A i \in DOMAIN queued :
        queued[i][1] = "done" =>
            \E k \in 1 .. (i - 1) : queued[k][1] = "error" /\ queued[k][3] = queued[i][3]

\* C10: after an RPC failure the client is sent an error event and then the
\* done event, whose sentence list is the one finalized before the failure and
\* whose sentenceCount is its length.
C10_ErrorThenDone ==
    \A j \in EventsOfType("done") :
        (errSentences.set /\ OnlyRpcFailures) =>
            /\ \E i \in 1 .. (j - 1) : client[i] = ErrorEvent("rpc error")
            /\ client[j].sentences = errSentences.val
            /\ client[j].sentenceCount = Len(errSentences.val)

\* an upload attempt of the session has failed
UploadFailed == \E i \in DOMAIN uploads : uploads[i].outcome # "uploaded"

\* the events that tell the client of a failed upload: an event of that type,
\* or the error event the dispatcher makes of an audio_upload_failed item
UploadFailureEvents ==
    { i \in DOMAIN client :
        client[i].type = "audio_upload_failed" \/ client[i] = ErrorEvent("upload failed") }

\* C11: when the upload attempt made by the stop handler has failed (the
\* container could not be built, or upload_audio_buffer failed), the client
\* of a session that ends with the connection open has been sent a
\* notification of the failure.
C11_UploadFailureSurfaced ==
    (/\ nworkers = 1
     /\ NoWorkerFailure
     /\ UploadFailed
     /\ stops >= 1
     /\ is_connected
     /\ hpc = "closed")
    => UploadFailureEvents # {}

\* C12: a failed upload attempt in the stop handler does not keep the handler
\* from completing (the 'stopping' status is sent), leaves no file URL stored,
\* and does not keep the done event from being produced: once nothing is left
\* to run it is on the result queue or sent, and when sent it carries no file
\* URL and the transcript and sentence list of the session.
C12_UploadFailureIsolated ==
    (UploadFailed /\ stops >= 1) =>
        /\ StatusAt("stopping") # {}
        /\ uploaded_file_url = None
        /\ \A i \in EventsOfType("done") :
              /\ client[i].file_url = None
              /\ nworkers = 1 =>
                    /\ client[i].fullText = full_text
                    /\ client[i].sentences = sentences
        /\ Quiescent =>
              \/ DoneCount > 0
              \/ \E k \in DOMAIN result_queue : result_queue[k][1] = "done"

\* C12's case: the container could not be built, and the done event was sent
\* with a sentence in it
C12_Witness ==
    /\ stops >= 1
    /\ uploads # <<>>
    /\ uploads[1].outcome = "build_failed"
    /\ DoneCount = 1
    /\ sentences # <<>>

\* all bytes the client has sent, and the bytes held back for the next frame
AllBytes == IF rx = <<>> THEN <<>> ELSE <<<<0, rx[Len(rx)][2]>>>>
Carry == Extend(raw_buffer, ws_pcm_buffer)

\* C13: when every chunk was written while RECORDING, the emitted frames are
\* FRAME_BYTES long each, their concatenation is the longest prefix of the
\* bytes written whose length is a multiple of FRAME_BYTES, and the rest of
\* the bytes written is the carry, shorter than FRAME_BYTES.
C13_Segmentation ==
    (\A c \in DOMAIN rx : rx[c][3] = "RECORDING") =>
        /\ \A i \in DOMAIN enqueued : BLen(enqueued[i]) = FRAME_BYTES
        /\ Join(enqueued) =
              Prefix(AllBytes, (BLen(AllBytes) \div FRAME_BYTES) * FRAME_BYTES)
        /\ Carry = DelPrefix(AllBytes, BLen(Join(enqueued)))
        /\ BLen(Carry) < FRAME_BYTES

\* C13's case: 330 bytes then 310 bytes, both while RECORDING, have given two
\* frames and an empty carry
C13_Witness ==
    /\ rx = <<<<0, 330, "RECORDING">>, <<330, 640, "RECORDING">>>>
    /\ Len(enqueued) = 2
    /\ Carry = <<>>

\* C14: the upload step of a stop that finds the archive empty makes no upload
\* attempt and leaves no file URL; from then on no attempt is ever made, no
\* URL is stored and a done event sent carries none.
C14_NoUploadOfEmptyArchive ==
    [][ /\ (hpc = "stop_upload" /\ hpc' # "stop_upload" /\ recorded_frames = <<>>)
           => (uploads' = <<>> /\ uploadCalls' = 0 /\ uploaded_file_url' = None)
        /\ (stops >= 1 /\ hpc # "stop_upload" /\ uploads = <<>>)
           => /\ uploads' = <<>>
              /\ uploadCalls' = 0
              /\ uploaded_file_url' = None
              /\ \A i \in DOMAIN client' :
                    client'[i].type = "done" => client'[i].file_url = None ]_vars

\* C14's case: start, pause, 320 bytes, stop, and the done event was sent
C14_Witness ==
    /\ nworkers = 1
    /\ rx = <<<<0, 320, "PAUSED">>>>
    /\ StatusAt("stopping") # {}
    /\ uploads = <<>>
    /\ DoneCount = 1

\* the marks rule 4 of the spec names: '.', '?', '!' and their full-width
\* equivalents
SpecTerminal == {".", "?", "!", "U+3002", "U+FF01", "U+FF1F"}

\* rules 1 to 7 of the spec's section 4.3, in order, on the text as given
SpecRules(epd_type, text, period_positions) ==
    IF Len(text) < 5 THEN FALSE
    ELSE IF epd_type \in {"periodEpd", "period"} THEN TRUE
    ELSE IF period_positions # <<>> THEN TRUE
    ELSE IF text[Len(text)] \in SpecTerminal THEN TRUE
    ELSE IF Len(text) >= 10 /\ epd_type \in {"duration", "syllable"} THEN TRUE
    ELSE IF Len(text) >= 20 /\ epd_type \in {"gap", "wordEpd"} THEN TRUE
    ELSE FALSE

EndsInQuestionMark(text) == text # <<>> /\ text[Len(text)] = "?"

\* C15: for every epdType, text and periodPositions, _is_sentence_end returns
\* the value the spec's rules 1 to 7 give on the text as received.
C15_ClassifierFollowsRules ==
    ret.done => ret.val = SpecRules(call.epdType, call.text, call.periodPositions)

\* C16 as stated: for any text ending in '?', _is_sentence_end returns true,
\* whatever the epdType, the periodPositions and the length of the text.
C16_QuestionMarkAlwaysEnds ==
    (ret.done /\ EndsInQuestionMark(call.text)) => ret.val

\* C16 as amended: for any text ending in '?' that has at least 5 characters
\* once surrounding whitespace is stripped, _is_sentence_end returns true,
\* whatever the epdType and the periodPositions.
C16_LongQuestionEnds ==
    (ret.done /\ EndsInQuestionMark(call.text) /\ Len(Strip(call.text)) >= 5)
    => ret.val

\* C16's case: a question of 5 characters, with an epdType no rule names and
\* no period position, was classified as a sentence end
C16_Witness ==
    /\ ret.done
    /\ call.text = Fill("U+AC00", 4) \o <<"?">>
    /\ call.epdType = ""
    /\ call.periodPositions = <<>>
    /\ ret.val

\* C17 as stated: _is_sentence_end('duration', the table's duration text, [])
\* returns true.
C17_TableDurationTrue ==
    (/\ ret.done
     /\ call.epdType = "duration"
     /\ call.text = TableDuration
     /\ call.periodPositions = <<>>)
    => ret.val

\* C17 as amended: _is_sentence_end('duration', the table's duration text, [])
\* returns false, the text having 9 characters; with 'duration' and no period
\* position a text of 10 characters without a terminal mark gives true.
C17_TableDurationFalse ==
    (ret.done /\ call.epdType = "duration" /\ call.periodPositions = <<>>) =>
        /\ call.text = TableDuration => ~ret.val
        /\ call.text = Fill("U+AC00", 10) => ret.val

\* C17's case: the table's call has returned false
C17_Witness ==
    /\ ret.done
    /\ call.epdType = "duration"
    /\ call.text = TableDuration
    /\ call.periodPositions = <<>>
    /\ ~ret.val

\* C18: the handling of a malformed control message sends one error event and
\* leaves the session state, the carry buffer, the archive and both queues as
\* they were, and the loop iteration it is handled in ends back at receive
\* with nothing else sent and nothing taken from the result queue.
C18_MalformedChangesNothing ==
    [][ /\ (hpc = "recv" /\ msg' = "malformed") =>
              /\ client' = Append(client, ErrorEvent("text parse error"))
              /\ UNCHANGED <<is_recording, is_paused, is_stopped, ws_pcm_buffer,
                             raw_buffer, recorded_frames, audio_queue, result_queue>>
        /\ (hpc = "poll" /\ msg = "malformed" /\ hpc' # "poll") =>
              /\ hpc' = "recv"
              /\ UNCHANGED <<is_recording, is_paused, is_stopped, ws_pcm_buffer,
                             raw_buffer, recorded_frames, audio_queue, result_queue,
                             client>> ]_vars

\* C19: when a started session in which no stop was processed has ended
\* (after a disconnect, or after the done event of a worker that ended on an
\* RPC failure), the recording flag is cleared, the archive is what was
\* archived (in a session started once, every frame ever emitted), and all of
\* it went into one upload attempt, the only one made; none when it is empty.
C19_CleanupFinalizesOnce ==
    (hpc = "closed" /\ stops = 0 /\ nworkers >= 1) =>
        /\ ~is_recording
        /\ nworkers = 1 => recorded_frames = enqueued
        /\ uploadCalls = Len(uploads)
        /\ IF recorded_frames = <<>>
           THEN uploads = <<>>
           ELSE /\ Len(uploads) = 1
                /\ uploads[1].audio = Join(recorded_frames)

\* C19's case: a PAUSED session whose worker ended on an RPC failure was
\* closed after the done event, no stop received, and its archive went into
\* the upload attempt
C19_Witness ==
    /\ hpc = "closed"
    /\ stops = 0
    /\ is_connected
    /\ is_paused
    /\ errSentences.set
    /\ recorded_frames # <<>>
    /\ Len(uploads) = 1

\* the queue item an event sent to the client was made of
ItemOf(e) ==
    IF e.type = "done" THEN <<"done", None>>
    ELSE IF e.type = "error" THEN <<"error", e.message>>
    ELSE <<"data", e>>

IsWorkerEvent(e) ==
    \/ e.type \in {"transcription", "done"}
    \/ e.type = "error" /\ e.message # "text parse error"

IsEventItem(q) == q[1] \in {"data", "error", "done"}

SameItem(a, b) == a[1] = b[1] /\ a[2] = b[2]

\* C20: the data, error and done events sent to the client are, in order and
\* one for one, the first of the data, error and done items the workers have
\* put on the result queue; the items not sent yet are those still on the
\* queue, in order, so none put before a done that was sent is missing.
C20_DispatchInQueueOrder ==
    LET sentEvents == SelectSeq(client, IsWorkerEvent)
        put == SelectSeq(queued, IsEventItem)
        waiting == SelectSeq(result_queue, IsEventItem)
    IN /\ Len(sentEvents) + Len(waiting) = Len(put)
       /\ \A i \in DOMAIN sentEvents : SameItem(ItemOf(sentEvents[i]), put[i])
       /\ \A k \in DOMAIN waiting : SameItem(waiting[k], put[Len(sentEvents) + k])

\* C20's case: a data event, the error event of an RPC failure and the done
\* event were sent, in that order
C20_Witness ==
    \E i, j, k \in DOMAIN client :
        /\ i < j
        /\ j < k
        /\ client[i].type = "transcription"
        /\ client[j] = ErrorEvent("rpc error")
        /\ client[k].type = "done"

\* the sum of the talk times of the speakers in S
RECURSIVE SumTimes(_, _)
SumTimes(stats, S) ==
    IF S = {} THEN 0
    ELSE LET l == CHOOSE x \in S : TRUE
         IN stats[l].time + SumTimes(stats, S \ {l})

\* C21: for every list of segments process_obs_json returns without a
\* division error; the speakers' talk times sum to the total talk time; each
\* segment is in exactly one speaker's list, that of its label, and the lists
\* keep the input's order; and every ratio is 0 when the total is 0.
C21_SpeakerStatistics ==
    ret.done =>
        /\ ret.val.success
        /\ LET stats == ret.val.speakerStats
               total == Accumulated(call.segments).total_talk_time
           IN /\ SumTimes(stats, DOMAIN stats) = total
              /\ \A i \in DOMAIN call.segments :
                    \A l \in DOMAIN stats :
                        Cardinality({ k \in DOMAIN stats[l].sentences :
                                        stats[l].sentences[k] = <<i, call.segments[i]>> })
                        = IF l = call.segments[i].label THEN 1 ELSE 0
              /\ \A l \in DOMAIN stats :
                    /\ \A k \in DOMAIN stats[l].sentences :
                          stats[l].sentences[k][1] \in DOMAIN call.segments
                    /\ \A j, k \in DOMAIN stats[l].sentences :
                          j < k => stats[l].sentences[j][1] < stats[l].sentences[k][1]
              /\ total = 0 => \A l \in DOMAIN stats : stats[l].ratio = 0

\* C21's case: three segments of two speakers, one of them ending before it
\* starts, with a total talk time of 0
C21_Witness ==
    /\ ret.done
    /\ Len(call.segments) = 3
    /\ call.segments[1].label = 1
    /\ call.segments[2].label = 2
    /\ call.segments[3].label = 1
    /\ call.segments[1].end < call.segments[1].start
    /\ Accumulated(call.segments).total_talk_time = 0
    /\ ret.val.speakerStats[1].ratio = 0

\* C22: at every state the frames ever put on the frame queue are the archive
\* list: the same frames in the same order.
C22_QueueEqualsArchive == enqueued = recorded_frames

\* the shape of a request stream: the config message, then frame messages
\* numbered from 0, then at most one terminal message, the last
StreamShape(reqs) ==
    reqs # <<>> =>
        /\ reqs[1] = ConfigRequest
        /\ \A i \in 2 .. Len(reqs) :
              /\ reqs[i].type = "DATA"
              /\ reqs[i].seqId = i - 2
              /\ IF reqs[i].epFlag
                 THEN i = Len(reqs) /\ reqs[i].chunk = <<>>
                 ELSE BLen(reqs[i].chunk) = FRAME_BYTES

EndsWithTerminal(reqs) == reqs # <<>> /\ reqs[Len(reqs)].type = "DATA" /\ reqs[Len(reqs)].epFlag

\* C23: what a worker has sent is the config message, then frame messages
\* with epFlag false and seqId 0, 1, 2, ..., then, exactly when its generator
\* has ended, one terminal message with an empty chunk, epFlag true and the
\* number of frames sent as seqId, after which nothing is sent.
C23_RequestStreamShape ==
    \A w \in Workers :
        /\ StreamShape(sent[w])
        /\ gen[w].pc = "end" <=> EndsWithTerminal(sent[w])

\* C23's case: a worker has sent the config message, two frames and the
\* terminal message
C23_Witness ==
    /\ Len(sent[1]) = 4
    /\ gen[1].pc = "end"
    /\ sent[1][4].seqId = 2

\* the items worker w has put on the result queue, in order
ItemsOf(w) ==
    LET OfWorker(q) == q[3] = w
    IN SelectSeq(queued, OfWorker)

\* C24: a worker puts at most one done item, exactly one once it has ended,
\* and nothing after it; it puts at most one error item, which is then the
\* item right before done; this whether the stream ended normally, on an RPC
\* error or on another exception.
C24_OneDonePerWorker ==
    \A w \in Workers :
        LET items == ItemsOf(w)
            dones == { i \in DOMAIN items : items[i][1] = "done" }
            errors == { i \in DOMAIN items : items[i][1] = "error" }
        IN /\ Cardinality(dones) = (IF rsp[w] = "end" THEN 1 ELSE 0)
           /\ \A i \in dones : i = Len(items)
           /\ Cardinality(errors) <= 1
           /\ \A i \in errors : rsp[w] = "end" => i = Len(items) - 1

\* C24's case: a worker that had put a data item ended on an exception that
\* is no RPC error, and put done
C24_Witness ==
    /\ rsp[1] = "end"
    /\ gen[1].pc = "cancelled"
    /\ ~errSentences.set
    /\ Len(ItemsOf(1)) = 2
    /\ ItemsOf(1)[1][1] = "data"
    /\ ItemsOf(1)[2][1] = "done"

IsData(q) == q[1] = "data"
HasText(r) == r[2].text # <<>>
EndsSentence(r) == is_sentence_end(r[2].epdType, r[2].text, r[2].periodPositions)

\* the data items are, one for one and in order, the responses rs
DataItemsAre(rs) ==
    LET data == SelectSeq(queued, IsData)
    IN /\ Len(data) = Len(rs)
       /\ \A i \in DOMAIN data :
             /\ data[i][3] = rs[i][1]
             /\ data[i][2].text = rs[i][2].text
             /\ data[i][2].epdType = rs[i][2].epdType
             /\ data[i][2].isSentenceEnd = EndsSentence(rs[i])

\* the texts ts, a space after each
RECURSIVE SpaceEnded(_)
SpaceEnded(ts) ==
    IF ts = <<>> THEN <<>> ELSE ts[1] \o <<" ">> \o SpaceEnded(Tail(ts))

\* the sentence list and the full text are made of the sentence-final
\* responses among rs, in order
SentencesAre(rs) ==
    LET final == SelectSeq(rs, EndsSentence)
    IN /\ Len(sentences) = Len(final)
       /\ \A i \in DOMAIN final : sentences[i] = final[i][2].text
       /\ full_text = SpaceEnded(sentences)

GenLive(w) == gen[w].pc \in {"config", "loop", "get", "terminal"}

\* C26: while the session is PAUSED no generator emits the terminal marker or
\* ends; and once a stop has cleared the recording flag, every generator that
\* is running ends with the terminal marker, unless its RPC fails first.
C26_GeneratorEndsAfterStop ==
    /\ [][ State = "PAUSED" =>
              \A w \in Workers : gen[w].pc # "end" => gen'[w].pc # "end" ]_vars
    /\ \A w \in Workers :
          (is_stopped /\ ~is_recording /\ GenLive(w))
          ~> (gen[w].pc \in {"end", "cancelled"})

\* C27: in a session started once, the frames the worker has sent to the
\* engine are a prefix of the archived frames: the same frames in the same
\* order, none twice, none left out.
C27_SentIsPrefixOfArchive ==
    nworkers = 1 =>
        LET chunks == ChunksOf(sent[1])
        IN /\ Len(chunks) <= Len(recorded_frames)
           /\ \A i \in DOMAIN chunks : chunks[i] = recorded_frames[i]

\* C27's case: two frames sent, one before a pause and one after the resume
C27_Witness ==
    /\ nworkers = 1
    /\ StatusAt("resumed") # {}
    /\ Len(rx) = 2
    /\ rx[1][3] = "RECORDING"
    /\ rx[2][3] = "RECORDING"
    /\ Len(ChunksOf(sent[1])) = 2

\* C28: when a session started once, whose worker did not fail, has ended
\* with the connection open and its archive uploaded, the client was sent an
\* audio_uploaded event with the file URL, and before the done event.
C28_UploadedBeforeDone ==
    (/\ nworkers = 1
     /\ NoWorkerFailure
     /\ hpc = "closed"
     /\ is_connected
     /\ uploaded_file_url = FileUrl)
    => \E i \in DOMAIN client :
          /\ client[i] = [type |-> "audio_uploaded", file_url |-> FileUrl]
          /\ \A j \in EventsOfType("done") : i < j

\* C29: after the handler's cleanup has run the recording flag is false (so
\* that every generator's next test of it ends the generator), whatever the
\* order of the control messages was.
C29_CleanupClearsRecording == hpc = "closed" => ~is_recording

\* C30: no byte received before start (INIT) or after stop is in a frame of
\* the archive or of the frame queue.
C30_OnlySessionBytes ==
    /\ FramesWithBytesOf(recorded_frames, "INIT") = {}
    /\ FramesWithBytesOf(enqueued, "INIT") = {}
    /\ FramesWithBytesOf(recorded_frames, "STOPPED") = {}
    /\ FramesWithBytesOf(enqueued, "STOPPED") = {}

====
